---- MODULE Spec2Model ----
(***************************************************************************)
(* Protocol runtime of the threshold-signing service: the five phase       *)
(* helpers (keygen, auxinfo, tshare, presign, sign) with their randomized  *)
(* single-thread scheduler loop, and the request flows that chain them.    *)
(* The per-party protocol engine (tss_ecdsa's Participant) is external: it *)
(* is modelled as a nondeterministic choice over everything its interface  *)
(* allows (an error, an optional terminal output, a list of outbound       *)
(* messages to arbitrary recipients).                                      *)
(***************************************************************************)
EXTENDS Integers, Sequences, FiniteSets, TLC

\* ------------------------------------------------------------------ bounds

\* Messages created in one session, the initial ones included.
MaxMsgs == 4
\* Outbound messages one processing step may return.
MaxOut == 2
\* The largest child index a request names or derive_key assigns.
MaxChild == 2

\* ------------------------------------------------------- program constants

NUMBER_OF_WORKERS == 3
THRESHOLD == 2

Parties == 1..NUMBER_OF_WORKERS
\* An identity that belongs to no quorum: a recipient without an inbox.
Outsider == NUMBER_OF_WORKERS + 1
Recipients == Parties \cup {Outsider}

NoSid == <<0, 0>>

VARIABLES
    \* ---- the request being served
    req,            \* "none" or the request flow that is running
    rng,            \* the flow's random generator: [seed, n]
    entropy,        \* generators seeded from entropy in this request
    configs,        \* the flow's participant configs (their identities)
    keygen_outputs, \* identities with a keygen output in the flow's map
    auxinfo_outputs,\* identities with an auxinfo output in the flow's map
    presign_outputs,\* identities with a presign record in the flow's map
    sessions,       \* the sessions started in this request: <<[phase, sid]>>
    key,            \* the key the flow's keygen outputs belong to, 0: none
    files,          \* local storage: file name -> content
    files0,         \* local storage as the running request found it
    response,       \* how the last request ended
    requested_index,\* the child index the last /derive_key request asked for
    child_index,    \* the child index the last storage request worked on
    signature,      \* the key that made the signature /verify was given
    deleted_files,  \* deleted_files of the last /delete_key answer
    public_key,     \* public_key of the last GET /keygen answer, 0: ""
    survived,       \* the keys whose shares the last /delete_key left
    signers,        \* the /sign requests that run concurrently: [pc, key]
    \* ---- the phase helper that is running
    phase,          \* "none" or the helper's phase
    hstate,         \* "idle", "running", "ok", "err", "panic"
    error,          \* what made the helper fail
    sid,            \* the helper's session id
    quorum,         \* identities of the helper's participants
    quorum_size,    \* the number of outputs the helper's loop waits for
    inboxes,        \* identity -> sequence of messages
    outputs,        \* identities whose outputs were recorded, in order
    sent,           \* messages created in this session so far
    sign_input,     \* presign records left in sign_helper's input map
    emitted         \* recipients of the new_messages of the last step

\* The parameters and the body of the last storage request.
answer == <<requested_index, child_index, signature, deleted_files,
            public_key>>

flowvars == <<req, rng, entropy, configs, keygen_outputs, auxinfo_outputs,
              presign_outputs, sessions, key, files, files0, response,
              requested_index, child_index, signature, deleted_files,
              public_key, survived, signers>>
helpervars == <<phase, hstate, error, sid, quorum, quorum_size, inboxes,
                outputs, sent, sign_input, emitted>>
vars == <<req, rng, entropy, configs, keygen_outputs, auxinfo_outputs,
          presign_outputs, sessions, key, files, files0, response,
          requested_index, child_index, signature, deleted_files,
          public_key, survived, signers,
          phase, hstate, error, sid, quorum, quorum_size, inboxes,
          outputs, sent, sign_input, emitted>>

\* ------------------------------------------------------------- utilities

Range(s) == {s[i] : i \in 1..Len(s)}

Min(a, b) == IF a < b THEN a ELSE b

\* An empty inbox for every identity of S.
EmptyInboxes(S) == [p \in S |-> <<>>]

\* Sequences over S of length at most k.
SeqsUpTo(S, k) == UNION {[1..n -> S] : n \in 0..k}

\* ------------------------------------------------------------ rng, sids

\* StdRng::from_entropy: the k-th generator seeded in a request, no draw made.
from_entropy(k) == [seed |-> k, n |-> 0]

\* One draw from a generator (random_quorum draws the identities from it).
advance(r) == [seed |-> r.seed, n |-> r.n + 1]

\* Identifier::random(&mut rng): a function of the generator's state.
Identifier_random(r) == <<r.seed, r.n + 1>>

\* ------------------------------------------------------ protocol engine

\* The place of p among the identities of Q: the order the quorum is built in.
Rank(p, Q) == Cardinality({q \in Q : q <= p})

\* A message: the runtime sees its recipient only; id is its creation order
\* within the session.
Msg(i, p) == [id |-> i, to |-> p]

\* inbox.push(participant.initialize_message()?) for the participants before
\* `stop`, in quorum order; each initial message goes to its creator's inbox.
InitMessages(inb, Q, stop) ==
    [p \in DOMAIN inb |->
        IF p \in Q /\ p < stop THEN Append(inb[p], Msg(Rank(p, Q), p))
        ELSE inb[p]]

\* What process_single_message may return when `k` messages were created so
\* far: an error, or an optional output with outbound messages.
EngineResults(k) ==
    {[err |-> TRUE, out |-> FALSE, to |-> <<>>]} \cup
    {[err |-> FALSE, out |-> o, to |-> t] :
        o \in BOOLEAN, t \in SeqsUpTo(Recipients, Min(MaxOut, MaxMsgs - k))}

\* The outbound messages of a step, numbered in emission order.
NewMessages(k, to) == [i \in 1..Len(to) |-> Msg(k + i, to[i])]

\* ------------------------------------------------- scheduler primitives

\* inboxes.get_mut(&selected_pid).unwrap().remove(0)
remove_first(inbox) == [msg |-> Head(inbox), rest |-> Tail(inbox)]

\* inbox.pop()
pop_last(inbox) ==
    [msg |-> inbox[Len(inbox)], rest |-> SubSeq(inbox, 1, Len(inbox) - 1)]

\* The message a step takes from the selected inbox.
take_message(ph, inbox) ==
    IF ph = "sign" THEN pop_last(inbox) ELSE remove_first(inbox)

\* keygen/auxinfo/tshare/presign: every non-empty inbox of the map.
non_empty_inboxes == {p \in DOMAIN inboxes : inboxes[p] # <<>>}

\* A scheduler that only ever looks at the first participant with messages.
first_participant_with_messages ==
    {p \in quorum \cap DOMAIN inboxes :
        /\ inboxes[p] # <<>>
        /\ \A q \in quorum \cap DOMAIN inboxes : inboxes[q] # <<>> => p <= q}

\* sign: the participants of the quorum whose inbox is non-empty.
participants_with_messages ==
    {p \in quorum \cap DOMAIN inboxes : inboxes[p] # <<>>}

candidates == IF phase = "sign" THEN participants_with_messages
              ELSE non_empty_inboxes

\* A delivery that treats every new message as a broadcast: each inbox
\* gets it, whoever it is addressed to.
deliver_broadcast(inb, msgs) ==
    [p \in DOMAIN inb |-> inb[p] \o msgs]

\* A delivery that pushes the first new message and forgets the others.
deliver_first_only(inb, msgs) ==
    IF msgs = <<>> \/ Head(msgs).to \notin DOMAIN inb THEN inb
    ELSE [inb EXCEPT ![Head(msgs).to] = Append(@, Head(msgs))]

\* A delivery that gives up on the whole batch when one recipient has no
\* inbox.
deliver_all_or_nothing(inb, msgs) ==
    IF \E i \in 1..Len(msgs) : msgs[i].to \notin DOMAIN inb THEN inb
    ELSE [p \in DOMAIN inb |->
            inb[p] \o SelectSeq(msgs, LAMBDA m : m.to = p)]

\* for msg in new_messages { if let Some(inbox) = inboxes.get_mut(&msg.to())
\* { inbox.push(msg) } }
RECURSIVE deliver(_, _)
deliver(inb, msgs) ==
    IF msgs = <<>> THEN inb
    ELSE LET m == Head(msgs)
             nxt == IF m.to \in DOMAIN inb
                    THEN [inb EXCEPT ![m.to] = Append(@, m)]
                    ELSE inb
         IN deliver(nxt, Tail(msgs))

inboxes_are_empty(inb) == \A p \in DOMAIN inb : inb[p] = <<>>

\* A helper that never checks for a second output of a participant.
never_checks_duplicate(ph) == FALSE

\* assert!(outputs.insert(pid, output).is_none()) in the four helpers that
\* keep a map; sign_helper pushes to a vector and checks nothing.
checks_duplicate_output(ph) == ph # "sign"

\* A helper that returns without looking at its inboxes.
never_checks_inboxes(ph) == FALSE

\* assert!(inboxes_are_empty(&inboxes)) after the loop; not in sign_helper.
checks_inboxes_empty(ph) == ph # "sign"

\* ------------------------------------------------------- helper: set-up

\* The helper stops during set-up: `kind` is "err" (an Err value returned
\* with `?`) or "panic" (an unwrap of None, a failed assert!).  The session
\* id was drawn before any check, `inb` is what the inboxes hold by then.
HelperFails(ph, r, kind, why, inb) ==
    /\ phase' = ph
    /\ hstate' = kind
    /\ error' = why
    /\ sid' = Identifier_random(r)
    /\ quorum' = {}
    /\ quorum_size' = 0
    /\ inboxes' = inb
    /\ outputs' = <<>>
    /\ sent' = 0
    /\ emitted' = <<>>

\* The participants are built and every one's initial message is pushed to
\* its own inbox; the loop can start.
HelperRuns(ph, r, Q, qsize, inb) ==
    /\ phase' = ph
    /\ hstate' = "running"
    /\ error' = "none"
    /\ sid' = Identifier_random(r)
    /\ quorum' = Q
    /\ quorum_size' = qsize
    /\ inboxes' = InitMessages(inb, Q, NUMBER_OF_WORKERS + 1)
    /\ outputs' = <<>>
    /\ sent' = Cardinality(Q)
    /\ emitted' = <<>>

\* for participant in &quorum { inboxes.get_mut(&id).unwrap()
\*                                  .push(participant.initialize_message()?) }
\* in quorum order: the first participant without an inbox panics the
\* helper, an engine error at a participant returns it.
InitializeAll(ph, r, Q, qsize, inb) ==
    LET missing == Q \ DOMAIN inb
        reach(f) == \A q \in missing : f <= q
    IN \/ /\ missing = {}
          /\ HelperRuns(ph, r, Q, qsize, inb)
       \/ \E f \in Q \cap DOMAIN inb :
            /\ reach(f)
            /\ HelperFails(ph, r, "err", "engine", InitMessages(inb, Q, f))
       \/ \E f \in missing :
            /\ reach(f)
            /\ HelperFails(ph, r, "panic", "unwrap_none",
                           InitMessages(inb, Q, f))

\* Participant::from_config(..).unwrap() (and the Input::new(..).unwrap() of
\* tshare and presign): the engine refuses the configuration.
ConstructPanics(ph, r, inb) ==
    HelperFails(ph, r, "panic", "unwrap_err", inb)

\* keygen_helper(configs, inboxes, rng): the caller's inboxes are used.
keygen_helper(cfgs, inb, r) ==
    /\ \/ InitializeAll("keygen", r, cfgs, Cardinality(cfgs), inb)
       \/ ConstructPanics("keygen", r, inb)
    /\ sign_input' = {}

\* auxinfo_helper(configs, rng): fresh inboxes, one per participant.
auxinfo_helper(cfgs, r) ==
    /\ \/ InitializeAll("auxinfo", r, cfgs, Cardinality(cfgs),
                        EmptyInboxes(cfgs))
       \/ ConstructPanics("auxinfo", r, EmptyInboxes({}))
    /\ sign_input' = {}

\* tshare_helper(configs, auxinfo_outputs, threshold, rng):
\* auxinfo_outputs.get(&config.id()).unwrap() for every config, then fresh
\* inboxes.
tshare_helper(cfgs, aux, r) ==
    /\ IF cfgs \subseteq aux
       THEN \/ InitializeAll("tshare", r, cfgs, Cardinality(cfgs),
                             EmptyInboxes(cfgs))
            \/ ConstructPanics("tshare", r, EmptyInboxes({}))
       ELSE HelperFails("tshare", r, "panic", "unwrap_none",
                        EmptyInboxes({}))
    /\ sign_input' = {}

\* The number of outputs presign_helper's loop waits for.
presign_quorum_size(cfgs, aux) == Cardinality(aux)

\* presign_helper(configs, auxinfo_outputs, keygen_outputs, &mut inboxes,
\* rng): both maps are unwrapped for every config; the caller's inboxes are
\* used as they are.
presign_helper(cfgs, aux, kg, inb, r) ==
    /\ IF cfgs \subseteq aux /\ cfgs \subseteq kg
       THEN \/ InitializeAll("presign", r, cfgs,
                             presign_quorum_size(cfgs, aux), inb)
            \/ ConstructPanics("presign", r, inb)
       ELSE HelperFails("presign", r, "panic", "unwrap_none", inb)
    /\ sign_input' = {}

\* if !inboxes.contains_key(&id) { inboxes.insert(id, Vec::new()) }
ensure_inboxes(inb, Q) ==
    [p \in DOMAIN inb \cup Q |-> IF p \in DOMAIN inb THEN inb[p] ELSE <<>>]

\* A sign_helper that reads the records and leaves them in the map.
get_records(pre, taken) == pre

\* presign_outputs.remove(&config.id()) for the configs `taken`: the record
\* moves into the participant's input and leaves the map.
remove_records(pre, taken) == pre \ taken

\* sign_helper(configs, input, message, rng): config by config, the presign
\* record is removed and unwrapped and from_config's error is returned with
\* `?`; then missing inboxes are created.
sign_helper(cfgs, pre, inb, r) ==
    LET missing == cfgs \ pre
    IN \/ /\ missing = {}
          /\ InitializeAll("sign", r, cfgs, Cardinality(cfgs),
                           ensure_inboxes(inb, cfgs))
          /\ sign_input' = remove_records(pre, cfgs)
       \/ /\ missing # {}
          /\ HelperFails("sign", r, "panic", "unwrap_none", inb)
          /\ sign_input' =
                remove_records(pre, {q \in cfgs : \A m \in missing : q < m})
       \/ \E c \in cfgs \ missing :
            /\ \A q \in missing : c < q
            /\ HelperFails("sign", r, "err", "engine", inb)
            /\ sign_input' = remove_records(pre, {q \in cfgs : q <= c})

\* ------------------------------------------------ helper: scheduler loop

\* Recording the output of participant p: map.insert(pid, output) with its
\* assertion, or vec.push(output).
record_output(ph, outs, p) ==
    IF checks_duplicate_output(ph) /\ p \in Range(outs)
    THEN [ok |-> FALSE, outs |-> outs]
    ELSE [ok |-> TRUE, outs |-> Append(outs, p)]

\* while outputs.len() < quorum_size
loop_continues == hstate = "running" /\ Len(outputs) < quorum_size

\* One iteration in which process_random_message found no candidate and
\* returned Ok(None): nothing changes and the loop condition is tested again.
IdleIteration ==
    /\ loop_continues
    /\ candidates = {}
    /\ UNCHANGED vars

\* ProcessMessage with the engine's error noted and the loop going on.
ProcessMessage_continues(p, res) ==
    LET taken == take_message(phase, inboxes[p])
        removed == [inboxes EXCEPT ![p] = taken.rest]
        rec == record_output(phase, outputs, p)
    IN /\ loop_continues
       /\ p \in candidates
       /\ UNCHANGED <<phase, sid, quorum, quorum_size, sign_input>>
       /\ IF p \notin quorum
          THEN /\ hstate' = "panic" /\ error' = "unwrap_none"
               /\ inboxes' = removed
               /\ emitted' = <<>>
               /\ UNCHANGED <<outputs, sent>>
          ELSE IF res.err
          THEN /\ error' = "engine"
               /\ inboxes' = removed
               /\ emitted' = <<>>
               /\ UNCHANGED <<hstate, outputs, sent>>
          ELSE /\ inboxes' = deliver(removed, NewMessages(sent, res.to))
               /\ sent' = sent + Len(res.to)
               /\ emitted' = res.to
               /\ IF ~res.out
                  THEN UNCHANGED <<hstate, error, outputs>>
                  ELSE IF rec.ok
                  THEN outputs' = rec.outs /\ UNCHANGED <<hstate, error>>
                  ELSE /\ hstate' = "panic" /\ error' = "assert_duplicate"
                       /\ UNCHANGED outputs

\* One iteration that processes a message of participant p with engine
\* result res.
ProcessMessage(p, res) ==
    LET taken == take_message(phase, inboxes[p])
        removed == [inboxes EXCEPT ![p] = taken.rest]
        rec == record_output(phase, outputs, p)
    IN /\ loop_continues
       /\ p \in candidates
       /\ UNCHANGED <<phase, sid, quorum, quorum_size, sign_input>>
       /\ IF p \notin quorum
          THEN \* quorum.iter_mut().find(..).unwrap() on None
               /\ hstate' = "panic" /\ error' = "unwrap_none"
               /\ inboxes' = removed
               /\ emitted' = <<>>
               /\ UNCHANGED <<outputs, sent>>
          ELSE IF res.err
          THEN \* process_single_message(..)? returns the engine's error
               /\ hstate' = "err" /\ error' = "engine"
               /\ inboxes' = removed
               /\ emitted' = <<>>
               /\ UNCHANGED <<outputs, sent>>
          ELSE /\ inboxes' = deliver(removed, NewMessages(sent, res.to))
               /\ sent' = sent + Len(res.to)
               /\ emitted' = res.to
               /\ IF ~res.out
                  THEN UNCHANGED <<hstate, error, outputs>>
                  ELSE IF rec.ok
                  THEN outputs' = rec.outs /\ UNCHANGED <<hstate, error>>
                  ELSE /\ hstate' = "panic" /\ error' = "assert_duplicate"
                       /\ UNCHANGED outputs

\* The loop has ended: the post-condition is asserted (not in sign_helper)
\* and the helper returns Ok.
HelperReturns ==
    /\ hstate = "running"
    /\ ~(Len(outputs) < quorum_size)
    /\ IF checks_inboxes_empty(phase) /\ ~inboxes_are_empty(inboxes)
       THEN hstate' = "panic" /\ error' = "assert_inboxes"
       ELSE hstate' = "ok" /\ error' = "none"
    /\ emitted' = <<>>
    /\ UNCHANGED <<phase, sid, quorum, quorum_size, inboxes, outputs, sent,
                   sign_input>>

HelperStep ==
    \/ IdleIteration
    \/ /\ \E p \in candidates : \E res \in EngineResults(sent) :
            ProcessMessage(p, res)
       /\ UNCHANGED flowvars
    \/ HelperReturns /\ UNCHANGED flowvars

\* ---------------------------------------------------------- local storage

F_RESULT == "keygen_result.json"
F_CONFIGS == "keygen_configs.bin"
F_MARKER == "keygen_completed.marker"
F_ESSENTIALS == "keygen_essentials.json"
F_PUBKEY == "public_key.bin"
F_HD == "hd_keys.json"

\* format!("public_key_child_{}.bin", child_index)
child_file(i) == "public_key_child_" \o ToString(i) \o ".bin"

\* What a file holds: the key generation it comes from and the identities
\* it lists (participants for configs, owners of the shares for outputs).
Content(k, ids) == [key |-> k, ids |-> ids]

NoFiles == [f \in {} |-> Content(0, {})]

\* fs::write(name, content)
write(fs, f, c) == [g \in DOMAIN fs \cup {f} |-> IF g = f THEN c ELSE fs[g]]

\* fs::remove_file for every name of S that exists
remove_files(fs, S) == [g \in DOMAIN fs \ S |-> fs[g]]

\* The keys of the files on disk.
KeysOnDisk(fs) == {fs[f].key : f \in DOMAIN fs}

\* The keys whose private shares are on disk.
SharesOnDisk(fs) == IF F_RESULT \in DOMAIN fs THEN {fs[F_RESULT].key} ELSE {}

\* The key a keygen session has just generated: different from every key
\* that local storage holds.
fresh_key(fs) ==
    CHOOSE k \in 1..(Cardinality(KeysOnDisk(fs)) + 1) :
        /\ k \notin KeysOnDisk(fs)
        /\ \A j \in 1..(k - 1) : j \in KeysOnDisk(fs)

\* sign.rs is_keygen_completed: marker, result and configs all exist.
is_keygen_completed == {F_MARKER, F_RESULT, F_CONFIGS} \subseteq DOMAIN files

\* A store that keeps the first participant's output only, as
\* store_keygen_essentials does.
store_first_output_only(fs, cfgs, k, outs) ==
    write(write(write(fs, F_RESULT,
                      Content(k, {p \in outs : \A q \in outs : p <= q})),
                F_CONFIGS, Content(k, cfgs)),
          F_MARKER, Content(0, {}))

\* store_keygen_outputs writes the whole result (every private share) as
\* JSON, the configs with bincode and the marker, in this order.
store_keygen_outputs(fs, cfgs, k, outs) ==
    write(write(write(fs, F_RESULT, Content(k, outs)),
                F_CONFIGS, Content(k, cfgs)),
          F_MARKER, Content(0, {}))

\* load_keygen_outputs reads the result and the configs back; a missing
\* file is an error.
load_keygen_outputs(fs) ==
    IF {F_RESULT, F_CONFIGS} \subseteq DOMAIN fs
    THEN [ok |-> TRUE, configs |-> fs[F_CONFIGS].ids,
          key |-> fs[F_RESULT].key, outs |-> fs[F_RESULT].ids]
    ELSE [ok |-> FALSE, configs |-> {}, key |-> 0, outs |-> {}]

\* store_keygen_essentials writes the configs and the public key of the
\* first output as JSON, then the marker.
store_keygen_essentials(fs, cfgs, k) ==
    write(write(fs, F_ESSENTIALS, Content(k, cfgs)), F_MARKER, Content(0, {}))

\* store_public_key_for_verification writes public_key.bin.
store_public_key_for_verification(fs, k) == write(fs, F_PUBKEY, Content(k, {}))

\* delete_key.rs: the files delete_all_key_material lists.
key_files == <<F_MARKER, F_ESSENTIALS, F_PUBKEY,
               "auxinfo_outputs.json", "presign_outputs.json">>

\* find_files_by_pattern: "*.key", "tss_*.json", "*_key_*".  Of the names
\* above none ends in ".key" or starts with "tss_", and the child public
\* key files are those that contain "_key_".
matches_pattern(f) == \E i \in 1..MaxChild : f = child_file(i)

\* The orders in which read_dir may list the files of S.
Orders(S) == {o \in [1..Cardinality(S) -> S] : Range(o) = S}

\* delete_all_key_material: the listed files that exist are removed and
\* pushed in the list's order, then the pattern-matched ones in the order
\* `found` they were listed in; an empty result is replaced by a notice.
delete_all_key_material(fs, found) ==
    LET deleted == SelectSeq(key_files, LAMBDA f : f \in DOMAIN fs) \o found
    IN [files |-> remove_files(fs, Range(deleted)),
        deleted_files |-> IF deleted = <<>> THEN <<"No key files found">>
                          ELSE deleted]

\* ------------------------------------------------------------ request flows

HelperIdle ==
    /\ phase' = "none"
    /\ hstate' = "idle"
    /\ error' = "none"
    /\ sid' = NoSid
    /\ quorum' = {}
    /\ quorum_size' = 0
    /\ inboxes' = EmptyInboxes({})
    /\ outputs' = <<>>
    /\ sent' = 0
    /\ sign_input' = {}
    /\ emitted' = <<>>

\* Option::None of a request's child_index.
NoIndex == -1

\* A request is accepted: the previous answer is gone.
RequestAccepted ==
    /\ requested_index' = NoIndex
    /\ child_index' = NoIndex
    /\ signature' = 0
    /\ deleted_files' = <<>>
    /\ public_key' = 0
    /\ UNCHANGED <<survived, signers>>

\* The handler answers and the request's locals are dropped.
Respond(how) ==
    /\ response' = how
    /\ req' = "none"
    /\ rng' = from_entropy(0)
    /\ entropy' = 0
    /\ configs' = {}
    /\ keygen_outputs' = {}
    /\ auxinfo_outputs' = {}
    /\ presign_outputs' = {}
    /\ sessions' = <<>>
    /\ key' = 0
    /\ files0' = files'
    /\ UNCHANGED <<answer, survived, signers>>
    /\ HelperIdle

\* A helper was called: its session is the next of the request.
SessionStarted == sessions' = Append(sessions, [phase |-> phase', sid |-> sid'])

\* POST /keygen, run_tss_keygen up to the call of keygen_helper.
run_tss_keygen ==
    /\ req = "none"
    /\ req' = "keygen"
    /\ entropy' = 1
    /\ rng' = advance(from_entropy(1))
    /\ configs' = Parties
    /\ keygen_helper(Parties, EmptyInboxes(Parties), rng')
    /\ SessionStarted
    /\ response' = "none"
    /\ RequestAccepted
    /\ files0' = files
    /\ UNCHANGED <<keygen_outputs, auxinfo_outputs, presign_outputs, key,
                   files>>

\* run_tss_keygen after keygen_helper returned Ok.
run_tss_keygen_done ==
    /\ req = "keygen" /\ phase = "keygen" /\ hstate = "ok"
    /\ files' = store_keygen_essentials(files, configs, fresh_key(files))
    /\ Respond("ok")

\* run_tss_auxinfo up to the call of auxinfo_helper.
run_tss_auxinfo ==
    /\ req = "none"
    /\ req' = "auxinfo"
    /\ entropy' = 1
    /\ rng' = advance(from_entropy(1))
    /\ configs' = Parties
    /\ auxinfo_helper(Parties, rng')
    /\ SessionStarted
    /\ response' = "none"
    /\ RequestAccepted
    /\ files0' = files
    /\ UNCHANGED <<keygen_outputs, auxinfo_outputs, presign_outputs, key,
                   files>>

run_tss_auxinfo_done ==
    /\ req = "auxinfo" /\ phase = "auxinfo" /\ hstate = "ok"
    /\ UNCHANGED files
    /\ Respond("ok")

\* run_tss_tshare up to the call of auxinfo_helper(configs, rng.clone()).
run_tss_tshare ==
    /\ req = "none"
    /\ req' = "tshare"
    /\ entropy' = 1
    /\ rng' = advance(from_entropy(1))
    /\ configs' = Parties
    /\ auxinfo_helper(Parties, rng')
    /\ SessionStarted
    /\ response' = "none"
    /\ RequestAccepted
    /\ files0' = files
    /\ UNCHANGED <<keygen_outputs, auxinfo_outputs, presign_outputs, key,
                   files>>

\* run_tss_tshare: tshare_helper(configs, auxinfo_result.auxinfo_outputs,
\* THRESHOLD, rng).
run_tss_tshare_tshare ==
    /\ req = "tshare" /\ phase = "auxinfo" /\ hstate = "ok"
    /\ auxinfo_outputs' = Range(outputs)
    /\ tshare_helper(configs, auxinfo_outputs', rng)
    /\ SessionStarted
    /\ UNCHANGED <<req, rng, entropy, configs, keygen_outputs,
                   presign_outputs, key, files, files0, response, answer, survived, signers>>

run_tss_tshare_done ==
    /\ req = "tshare" /\ phase = "tshare" /\ hstate = "ok"
    /\ UNCHANGED files
    /\ Respond("ok")

\* run_tss_presign up to the call of keygen_helper(.., rng.clone()).
run_tss_presign ==
    /\ req = "none"
    /\ req' = "presign"
    /\ entropy' = 1
    /\ rng' = advance(from_entropy(1))
    /\ configs' = Parties
    /\ keygen_helper(Parties, EmptyInboxes(Parties), rng')
    /\ SessionStarted
    /\ response' = "none"
    /\ RequestAccepted
    /\ files0' = files
    /\ UNCHANGED <<keygen_outputs, auxinfo_outputs, presign_outputs, key,
                   files>>

\* run_tss_presign: auxinfo_helper(configs.clone(), rng.clone()).
run_tss_presign_auxinfo ==
    /\ req = "presign" /\ phase = "keygen" /\ hstate = "ok"
    /\ keygen_outputs' = Range(outputs)
    /\ auxinfo_helper(configs, rng)
    /\ SessionStarted
    /\ UNCHANGED <<req, rng, entropy, configs, auxinfo_outputs,
                   presign_outputs, key, files, files0, response, answer, survived, signers>>

\* run_tss_presign: presign_helper(configs, auxinfo_outputs, keygen_outputs,
\* &mut auxinfo_result.inboxes, rng).
run_tss_presign_presign ==
    /\ req = "presign" /\ phase = "auxinfo" /\ hstate = "ok"
    /\ auxinfo_outputs' = Range(outputs)
    /\ presign_helper(configs, auxinfo_outputs', keygen_outputs, inboxes, rng)
    /\ SessionStarted
    /\ UNCHANGED <<req, rng, entropy, configs, keygen_outputs,
                   presign_outputs, key, files, files0, response, answer, survived, signers>>

run_tss_presign_done ==
    /\ req = "presign" /\ phase = "presign" /\ hstate = "ok"
    /\ UNCHANGED files
    /\ Respond("ok")

\* POST /sign, run_tss_sign with stored keygen outputs: they are loaded and
\* auxinfo_helper is called with a generator seeded from entropy.
run_tss_sign_loaded ==
    LET loaded == load_keygen_outputs(files)
    IN /\ req = "none"
       /\ is_keygen_completed
       /\ loaded.ok
       /\ req' = "sign"
       /\ entropy' = 1
       /\ rng' = from_entropy(1)
       /\ configs' = loaded.configs
       /\ keygen_outputs' = loaded.outs
       /\ key' = loaded.key
       /\ auxinfo_helper(configs', rng')
       /\ SessionStarted
       /\ response' = "none"
       /\ RequestAccepted
       /\ files0' = files
       /\ UNCHANGED <<auxinfo_outputs, presign_outputs, files>>

\* run_tss_sign without stored keygen outputs: the configs are drawn from
\* one generator and keygen_helper gets a second one.
run_tss_sign_first ==
    /\ req = "none"
    /\ ~is_keygen_completed
    /\ req' = "sign"
    /\ entropy' = 2
    /\ rng' = from_entropy(2)
    /\ configs' = Parties
    /\ keygen_helper(Parties, EmptyInboxes(Parties), rng')
    /\ SessionStarted
    /\ response' = "none"
    /\ RequestAccepted
    /\ files0' = files
    /\ UNCHANGED <<keygen_outputs, auxinfo_outputs, presign_outputs, key,
                   files>>

\* run_tss_sign: store_keygen_outputs, then auxinfo_helper with a fresh
\* generator.
run_tss_sign_auxinfo ==
    /\ req = "sign" /\ phase = "keygen" /\ hstate = "ok"
    /\ keygen_outputs' = Range(outputs)
    /\ key' = fresh_key(files)
    /\ files' = store_keygen_outputs(files, configs, key', keygen_outputs')
    /\ entropy' = entropy + 1
    /\ rng' = from_entropy(entropy')
    /\ auxinfo_helper(configs, rng')
    /\ SessionStarted
    /\ UNCHANGED <<req, configs, auxinfo_outputs, presign_outputs, files0,
                   response, answer, survived, signers>>

\* run_tss_sign: presign_helper on the inboxes auxinfo returned, with a
\* fresh generator.
run_tss_sign_presign ==
    /\ req = "sign" /\ phase = "auxinfo" /\ hstate = "ok"
    /\ auxinfo_outputs' = Range(outputs)
    /\ entropy' = entropy + 1
    /\ rng' = from_entropy(entropy')
    /\ presign_helper(configs, auxinfo_outputs', keygen_outputs, inboxes, rng')
    /\ SessionStarted
    /\ UNCHANGED <<req, configs, keygen_outputs, presign_outputs, key, files,
                   files0, response, answer, survived, signers>>

\* run_tss_sign: fresh inboxes for every config, the public key is stored,
\* sign_helper is called with a fresh generator.
run_tss_sign_sign ==
    /\ req = "sign" /\ phase = "presign" /\ hstate = "ok"
    /\ presign_outputs' = Range(outputs)
    /\ files' = store_public_key_for_verification(files, key)
    /\ entropy' = entropy + 1
    /\ rng' = from_entropy(entropy')
    /\ sign_helper(configs, presign_outputs', EmptyInboxes(configs), rng')
    /\ SessionStarted
    /\ UNCHANGED <<req, configs, keygen_outputs, auxinfo_outputs, key, files0,
                   response, answer, survived, signers>>

run_tss_sign_done ==
    /\ req = "sign" /\ phase = "sign" /\ hstate = "ok"
    /\ UNCHANGED files
    /\ Respond("ok")

\* A helper's error is returned with `?` and answered as a failure; a panic
\* unwinds the handler.
RequestFails ==
    /\ req # "none"
    /\ hstate \in {"err", "panic"}
    /\ UNCHANGED files
    /\ Respond(hstate)

\* POST /delete_key: delete_all_key_material never fails, the handler
\* answers success.
delete_key ==
    /\ req = "none"
    /\ \E found \in Orders({f \in DOMAIN files : matches_pattern(f)}) :
          LET done == delete_all_key_material(files, found)
          IN /\ files' = done.files
             /\ deleted_files' = done.deleted_files
    /\ files0' = files'
    /\ survived' = SharesOnDisk(files')
    /\ UNCHANGED signers
    /\ response' = "deleted"
    /\ requested_index' = NoIndex
    /\ child_index' = NoIndex
    /\ signature' = 0
    /\ public_key' = 0
    /\ UNCHANGED <<req, rng, entropy, configs, keygen_outputs,
                   auxinfo_outputs, presign_outputs, sessions, key>>
    /\ UNCHANGED helpervars

\* sign.rs's test of completion applied by keygen.rs.
completed_as_sign_tests(fs) == {F_MARKER, F_RESULT, F_CONFIGS} \subseteq DOMAIN fs

\* keygen.rs is_keygen_completed: the marker and the essentials exist.
keygen_is_keygen_completed(fs) == {F_MARKER, F_ESSENTIALS} \subseteq DOMAIN fs

\* load_stored_keygen_essentials: a missing file is an error.
load_stored_keygen_essentials(fs) ==
    IF F_ESSENTIALS \in DOMAIN fs
    THEN [ok |-> TRUE, public_key |-> fs[F_ESSENTIALS].key]
    ELSE [ok |-> FALSE, public_key |-> 0]

\* check_existing_keys: an error unless keygen is completed and the
\* essentials load; then the stored public key.
check_existing_keys(fs) ==
    IF keygen_is_keygen_completed(fs)
    THEN load_stored_keygen_essentials(fs)
    ELSE [ok |-> FALSE, public_key |-> 0]

\* GET /keygen: 200 with the stored key, or 404 with an empty key.
check_keygen ==
    /\ req = "none"
    /\ LET found == check_existing_keys(files)
       IN /\ response' = IF found.ok THEN "200" ELSE "404"
          /\ public_key' = found.public_key
    /\ requested_index' = NoIndex
    /\ child_index' = NoIndex
    /\ signature' = 0
    /\ deleted_files' = <<>>
    /\ UNCHANGED <<req, rng, entropy, configs, keygen_outputs,
                   auxinfo_outputs, presign_outputs, sessions, key, files,
                   files0, survived, signers>>
    /\ UNCHANGED helpervars

\* --------------------------------------------- concurrent /sign requests

\* The /sign requests the runtime serves at the same time, each on its own
\* worker thread.
Signers == {"first", "second"}

\* A request in run_tss_sign: where it is and the key of the keygen outputs
\* it holds (0: none yet).  pc "ok" is a returned signature, made with
\* that key; pc "err" is a failed request.
Signer(pc, k) == [pc |-> pc, key |-> k]

\* The key of a keygen session that has just ended: different from the
\* keys on disk and from those other requests hold.
generated_key ==
    LET known == KeysOnDisk(files) \cup {signers[j].key : j \in Signers}
    IN CHOOSE k \in 1..(Cardinality(known) + 1) :
          k \notin known /\ \A j \in 1..(k - 1) : j \in known

\* A step of request i: it moves to `next`, the files become fs.
SignerStep(i, next, fs) ==
    /\ signers' = [signers EXCEPT ![i] = next]
    /\ files' = fs
    /\ UNCHANGED <<req, rng, entropy, configs, keygen_outputs,
                   auxinfo_outputs, presign_outputs, sessions, key, files0,
                   response, answer, survived>>
    /\ UNCHANGED helpervars

\* if is_keygen_completed() { load_keygen_outputs()? } else { keygen }
sign_checks(i) ==
    LET loaded == load_keygen_outputs(files)
    IN /\ signers[i].pc = "start"
       /\ SignerStep(i, IF ~is_keygen_completed THEN Signer("keygen", 0)
                        ELSE IF loaded.ok THEN Signer("sessions", loaded.key)
                        ELSE Signer("err", 0), files)

\* keygen_helper(..)?: the session touches the request's locals only.
sign_keygen(i) ==
    /\ signers[i].pc = "keygen"
    /\ \/ SignerStep(i, Signer("store_result", generated_key), files)
       \/ SignerStep(i, Signer("err", 0), files)

\* store_keygen_outputs: fs::write("keygen_result.json", ..)
sign_stores_result(i) ==
    /\ signers[i].pc = "store_result"
    /\ SignerStep(i, Signer("store_configs", signers[i].key),
                  write(files, F_RESULT, Content(signers[i].key, Parties)))

\* store_keygen_outputs: fs::write("keygen_configs.bin", ..)
sign_stores_configs(i) ==
    /\ signers[i].pc = "store_configs"
    /\ SignerStep(i, Signer("store_marker", signers[i].key),
                  write(files, F_CONFIGS, Content(signers[i].key, Parties)))

\* store_keygen_outputs: fs::write("keygen_completed.marker", "1")
sign_stores_marker(i) ==
    /\ signers[i].pc = "store_marker"
    /\ SignerStep(i, Signer("sessions", signers[i].key),
                  write(files, F_MARKER, Content(0, {})))

\* auxinfo_helper(..)? and presign_helper(..)?, on locals only.
sign_presigns(i) ==
    /\ signers[i].pc = "sessions"
    /\ \/ SignerStep(i, Signer("store_public_key", signers[i].key), files)
       \/ SignerStep(i, Signer("err", signers[i].key), files)

\* store_public_key_for_verification(&saved_public_key)?
sign_stores_public_key(i) ==
    /\ signers[i].pc = "store_public_key"
    /\ SignerStep(i, Signer("sign", signers[i].key),
                  store_public_key_for_verification(files, signers[i].key))

\* sign_helper(..)?: the signature is returned, or the session's failure.
sign_signs(i) ==
    /\ signers[i].pc = "sign"
    /\ \/ SignerStep(i, Signer("ok", signers[i].key), files)
       \/ SignerStep(i, Signer("err", signers[i].key), files)

NextRace ==
    \/ \E i \in Signers : sign_checks(i)
    \/ \E i \in Signers : sign_keygen(i)
    \/ \E i \in Signers : sign_stores_result(i)
    \/ \E i \in Signers : sign_stores_configs(i)
    \/ \E i \in Signers : sign_stores_marker(i)
    \/ \E i \in Signers : sign_presigns(i)
    \/ \E i \in Signers : sign_stores_public_key(i)
    \/ \E i \in Signers : sign_signs(i)

\* ------------------------------------------------------- the HD key store

\* HdKeyStore: the root key's public key (0: None) and the derived keys,
\* each a pair of its child index and the root key it was derived from.
HdKeyStore(root_key, derived_keys) == Content(root_key, derived_keys)

\* load_hd_key_store: a missing hd_keys.json is HdKeyStore::new().
load_hd_key_store(fs) ==
    IF F_HD \in DOMAIN fs THEN fs[F_HD] ELSE HdKeyStore(0, {})

\* save_hd_key_store
save_hd_key_store(fs, store) == write(fs, F_HD, store)

\* derived_keys.keys()
existing_indices(store) == {d[1] : d \in store.ids}

\* A lookup that knows the root key only.
get_root_only(store, i) ==
    IF i = 0 /\ store.key # 0 THEN {store.key} ELSE {}

\* get_key: the root key for index 0, else the derived key of that index;
\* the empty set is None.
get_key(store, i) ==
    IF i = 0 THEN (IF store.key = 0 THEN {} ELSE {store.key})
    ELSE {d[2] : d \in {e \in store.ids : e[1] = i}}

\* add_root_key
add_root_key(store, k) == HdKeyStore(k, store.ids)

\* add_derived_key: HashMap::insert
add_derived_key(store, i, k) ==
    HdKeyStore(store.key, {d \in store.ids : d[1] # i} \cup {<<i, k>>})

\* A removal that empties derived_keys.
remove_every_derived_key(store, i) ==
    IF i = 0 THEN [had |-> store.key # 0, store |-> HdKeyStore(0, store.ids)]
    ELSE [had |-> i \in existing_indices(store),
          store |-> HdKeyStore(store.key, {})]

\* remove_key: whether the key was there, and the store without it.
remove_key(store, i) ==
    IF i = 0 THEN [had |-> store.key # 0, store |-> HdKeyStore(0, store.ids)]
    ELSE [had |-> i \in existing_indices(store),
          store |-> HdKeyStore(store.key, {d \in store.ids : d[1] # i})]

\* An index one beyond the largest in use.
index_after_largest(store) ==
    CHOOSE n \in 1..(Cardinality(store.ids) + MaxChild + 1) :
        /\ \A i \in existing_indices(store) : i < n
        /\ n = 1 \/ (n - 1) \in existing_indices(store)

\* let mut next_index = 1; while existing_indices.contains(&next_index)
\* { next_index += 1 }
next_index(store) ==
    CHOOSE n \in 1..(Cardinality(store.ids) + 1) :
        /\ n \notin existing_indices(store)
        /\ \A i \in 1..(n - 1) : i \in existing_indices(store)

\* get_root_public_key: public_key.bin if it can be read, else the public
\* key of the stored keygen result.
get_root_public_key(fs) ==
    IF F_PUBKEY \in DOMAIN fs THEN [ok |-> TRUE, key |-> fs[F_PUBKEY].key]
    ELSE IF F_RESULT \in DOMAIN fs /\ load_keygen_outputs(fs).ok
    THEN [ok |-> TRUE, key |-> load_keygen_outputs(fs).key]
    ELSE [ok |-> FALSE, key |-> 0]

\* derive_child_key_impl from the derivation on: the child public key is
\* stored, the store gets the derived key and is saved, and a store
\* without a root key gets the root public key and is saved again.
store_derived_key(fs, store, i) ==
    LET k == load_keygen_outputs(fs).key
        fs1 == write(fs, child_file(i), Content(k, {i}))
        store1 == add_derived_key(store, i, k)
        fs2 == save_hd_key_store(fs1, store1)
        root == get_root_public_key(fs2)
    IN IF store1.key # 0 THEN [ok |-> TRUE, files |-> fs2]
       ELSE IF root.ok
       THEN [ok |-> TRUE,
             files |-> save_hd_key_store(fs2, add_root_key(store1, root.key))]
       ELSE [ok |-> FALSE, files |-> fs2]

\* derive_child_key_impl(requested_index, label); real_ok is whether
\* derive_child_key_real's arithmetic succeeds.
derive_child_key_impl(fs, requested, real_ok) ==
    LET store == load_hd_key_store(fs)
        index == IF requested = NoIndex THEN next_index(store) ELSE requested
        failed == [ok |-> FALSE, child_index |-> NoIndex, files |-> fs]
    IN IF ~({F_MARKER, F_RESULT, F_CONFIGS} \subseteq DOMAIN fs) THEN failed
       ELSE IF requested = 0 THEN failed
       ELSE IF requested # NoIndex /\ get_key(store, requested) # {}
       THEN failed
       ELSE IF ~load_keygen_outputs(fs).ok \/ ~real_ok THEN failed
       ELSE LET stored == store_derived_key(fs, store, index)
            IN [ok |-> stored.ok,
                child_index |-> IF stored.ok THEN index ELSE NoIndex,
                files |-> stored.files]

\* The derive_key handler: the answer tells success from failure.
derive_key ==
    /\ req = "none"
    /\ \E requested \in {NoIndex} \cup 0..MaxChild : \E real_ok \in BOOLEAN :
          LET done == derive_child_key_impl(files, requested, real_ok)
          IN /\ requested = NoIndex =>
                   Cardinality(load_hd_key_store(files).ids) < MaxChild
             /\ requested_index' = requested
             /\ child_index' = done.child_index
             /\ files' = done.files
             /\ response' = IF done.ok THEN "derived" ELSE "derive_err"
    /\ files0' = files'
    /\ signature' = 0
    /\ deleted_files' = <<>>
    /\ public_key' = 0
    /\ UNCHANGED <<req, rng, entropy, configs, keygen_outputs,
                   auxinfo_outputs, presign_outputs, sessions, key,
                   survived, signers>>
    /\ UNCHANGED helpervars

\* delete_child_key_impl(child_index)
delete_child_key_impl(fs, i) ==
    LET store == load_hd_key_store(fs)
        removed == remove_key(store, i)
    IN IF i = 0 THEN [ok |-> FALSE, files |-> fs]
       ELSE IF ~removed.had THEN [ok |-> FALSE, files |-> fs]
       ELSE [ok |-> TRUE,
             files |-> remove_files(save_hd_key_store(fs, removed.store),
                                    {child_file(i)})]

\* The delete_child_key handler.
delete_child_key ==
    /\ req = "none"
    /\ \E i \in 0..MaxChild :
          LET done == delete_child_key_impl(files, i)
          IN /\ child_index' = i
             /\ files' = done.files
             /\ response' = IF done.ok THEN "child_deleted" ELSE "child_err"
    /\ files0' = files'
    /\ requested_index' = NoIndex
    /\ signature' = 0
    /\ deleted_files' = <<>>
    /\ public_key' = 0
    /\ UNCHANGED <<req, rng, entropy, configs, keygen_outputs,
                   auxinfo_outputs, presign_outputs, sessions, key,
                   survived, signers>>
    /\ UNCHANGED helpervars

\* ---------------------------------------------------------- verification

\* load_public_key_for_verification: Some(key of public_key.bin), or None
\* (the empty set) without the file.
load_public_key_for_verification(fs) ==
    [ok |-> TRUE,
     key |-> IF F_PUBKEY \in DOMAIN fs THEN {fs[F_PUBKEY].key} ELSE {}]

\* A verification that looks at no HD key store.
load_public_key_without_store(fs, i) == load_public_key_for_verification(fs)

\* load_public_key_for_verification_with_child
load_public_key_for_verification_with_child(fs, i) ==
    IF i = 0 THEN load_public_key_for_verification(fs)
    ELSE IF get_key(load_hd_key_store(fs), i) # {}
    THEN load_public_key_for_verification(fs)
    ELSE [ok |-> FALSE, key |-> {}]

\* run_verification(message, signature, child_index): sig is the key the
\* signature of the message was made with, 0 for a string that is no
\* signature.
run_verification(fs, sig, i) ==
    LET loaded == load_public_key_for_verification_with_child(fs, i)
    IN IF ~loaded.ok \/ loaded.key = {} THEN "verify_err"
       ELSE IF sig = 0 THEN "verify_err"
       ELSE IF sig \in loaded.key THEN "valid"
       ELSE "invalid"

\* The signatures a /verify request may bring: a string that is no
\* signature, a signature made with the key of public_key.bin, one made
\* with a key that local storage does not hold.
Signatures(fs) ==
    {0, fresh_key(fs)} \cup
    (IF F_PUBKEY \in DOMAIN fs THEN {fs[F_PUBKEY].key} ELSE {})

\* POST /verify; child_index.unwrap_or(0).
verify ==
    /\ req = "none"
    /\ \E i \in 0..MaxChild :
       \E sig \in Signatures(files) :
          /\ child_index' = i
          /\ signature' = sig
          /\ response' = run_verification(files, sig, i)
    /\ requested_index' = NoIndex
    /\ deleted_files' = <<>>
    /\ public_key' = 0
    /\ UNCHANGED <<req, rng, entropy, configs, keygen_outputs,
                   auxinfo_outputs, presign_outputs, sessions, key, files,
                   files0, survived, signers>>
    /\ UNCHANGED helpervars

Init ==
    /\ req = "none"
    /\ rng = from_entropy(0)
    /\ entropy = 0
    /\ configs = {}
    /\ keygen_outputs = {}
    /\ auxinfo_outputs = {}
    /\ presign_outputs = {}
    /\ sessions = <<>>
    /\ key = 0
    /\ files = NoFiles
    /\ files0 = NoFiles
    /\ response = "none"
    /\ requested_index = NoIndex
    /\ child_index = NoIndex
    /\ signature = 0
    /\ deleted_files = <<>>
    /\ public_key = 0
    /\ survived = {}
    /\ signers = [i \in Signers |-> Signer("start", 0)]
    /\ phase = "none"
    /\ hstate = "idle"
    /\ error = "none"
    /\ sid = NoSid
    /\ quorum = {}
    /\ quorum_size = 0
    /\ inboxes = EmptyInboxes({})
    /\ outputs = <<>>
    /\ sent = 0
    /\ sign_input = {}
    /\ emitted = <<>>

Next ==
    \/ run_tss_keygen
    \/ run_tss_keygen_done
    \/ run_tss_auxinfo
    \/ run_tss_auxinfo_done
    \/ run_tss_tshare
    \/ run_tss_tshare_tshare
    \/ run_tss_tshare_done
    \/ run_tss_presign
    \/ run_tss_presign_auxinfo
    \/ run_tss_presign_presign
    \/ run_tss_presign_done
    \/ run_tss_sign_loaded
    \/ run_tss_sign_first
    \/ run_tss_sign_auxinfo
    \/ run_tss_sign_presign
    \/ run_tss_sign_sign
    \/ run_tss_sign_done
    \/ RequestFails
    \/ HelperStep

Spec == Init /\ [][Next]_vars

\* ------------------------------------------- the routes and local storage

\* The requests main.rs routes that write or delete key files, in every
\* order: POST /keygen, POST /sign, POST /delete_key.  The sessions are
\* those of Spec with at most one message beyond the initial ones.
StoreMsgs == NUMBER_OF_WORKERS + 1

NextStore ==
    \/ run_tss_keygen
    \/ run_tss_keygen_done
    \/ run_tss_sign_loaded
    \/ run_tss_sign_first
    \/ run_tss_sign_auxinfo
    \/ run_tss_sign_presign
    \/ run_tss_sign_sign
    \/ run_tss_sign_done
    \/ RequestFails
    \/ delete_key
    \/ check_keygen
    \/ HelperStep /\ sent' <= StoreMsgs

SpecStore == Init /\ [][NextStore]_vars

\* ---------------------------------------------- two /sign requests at once

\* Two /sign requests arrive while no key is stored.
SpecRace == Init /\ [][NextRace]_vars

\* ------------------------------------------- the HD keys and verification

\* The requests on the HD key store and /verify, with the requests that
\* write and delete the files they read: /sign when no key is stored, and
\* /delete_key.  The sessions exchange their initial messages only.
HdMsgs == NUMBER_OF_WORKERS

NextHd ==
    \/ run_tss_sign_first
    \/ run_tss_sign_auxinfo
    \/ run_tss_sign_presign
    \/ run_tss_sign_sign
    \/ run_tss_sign_done
    \/ RequestFails
    \/ delete_key
    \/ derive_key
    \/ delete_child_key
    \/ verify
    \/ HelperStep /\ sent' <= HdMsgs

SpecHd == Init /\ [][NextHd]_vars

\* ------------------------------------------- the helpers called directly

\* The helpers are public functions: here each is called once with inputs
\* of its parameter types, not only with those the request flows build.
\* The configs are the full quorum or its THRESHOLD smallest identities.
HelperConfigs == {Parties, 1..THRESHOLD}

InitHelper ==
    /\ req \in {"keygen_helper", "auxinfo_helper", "tshare_helper",
                "presign_helper", "sign_helper"}
    /\ rng = from_entropy(1)
    /\ entropy = 1
    /\ configs \in HelperConfigs
    /\ keygen_outputs \in
         IF req = "presign_helper" THEN SUBSET Parties ELSE {{}}
    /\ auxinfo_outputs \in
         IF req \in {"tshare_helper", "presign_helper"}
         THEN SUBSET Parties ELSE {{}}
    /\ presign_outputs \in
         IF req = "sign_helper" THEN SUBSET Parties ELSE {{}}
    /\ sessions = <<>>
    /\ key = 0
    /\ files = NoFiles
    /\ files0 = NoFiles
    /\ response = "none"
    /\ requested_index = NoIndex
    /\ child_index = NoIndex
    /\ signature = 0
    /\ deleted_files = <<>>
    /\ public_key = 0
    /\ survived = {}
    /\ signers = [i \in Signers |-> Signer("start", 0)]
    /\ phase = "none"
    /\ hstate = "idle"
    /\ error = "none"
    /\ sid = NoSid
    /\ quorum = {}
    /\ quorum_size = 0
    /\ inboxes \in
         IF req \in {"keygen_helper", "presign_helper", "sign_helper"}
         THEN {EmptyInboxes(D) : D \in SUBSET Parties}
         ELSE {EmptyInboxes({})}
    /\ outputs = <<>>
    /\ sent = 0
    /\ sign_input = {}
    /\ emitted = <<>>

CallFrame ==
    /\ hstate = "idle"
    /\ SessionStarted
    /\ UNCHANGED <<req, rng, entropy, configs, keygen_outputs,
                   auxinfo_outputs, presign_outputs, key, files, files0,
                   response, answer, survived, signers>>

call_keygen_helper ==
    /\ req = "keygen_helper"
    /\ keygen_helper(configs, inboxes, rng)
    /\ CallFrame

call_auxinfo_helper ==
    /\ req = "auxinfo_helper"
    /\ auxinfo_helper(configs, rng)
    /\ CallFrame

call_tshare_helper ==
    /\ req = "tshare_helper"
    /\ tshare_helper(configs, auxinfo_outputs, rng)
    /\ CallFrame

call_presign_helper ==
    /\ req = "presign_helper"
    /\ presign_helper(configs, auxinfo_outputs, keygen_outputs, inboxes, rng)
    /\ CallFrame

call_sign_helper ==
    /\ req = "sign_helper"
    /\ sign_helper(configs, presign_outputs, inboxes, rng)
    /\ CallFrame

NextHelper ==
    \/ call_keygen_helper
    \/ call_auxinfo_helper
    \/ call_tshare_helper
    \/ call_presign_helper
    \/ call_sign_helper
    \/ HelperStep

SpecHelper == InitHelper /\ [][NextHelper]_vars

\* ================================================================ claims

NoDuplicates(seq) ==
    \A i, j \in 1..Len(seq) : i # j => seq[i] # seq[j]

\* C1: in every phase helper a participant's second terminal output in one
\* session is fatal at that step: no helper that is still running, or that
\* returned success, has recorded two outputs of one participant.
C1_DuplicateOutputIsFatal ==
    hstate \in {"running", "ok"} => NoDuplicates(outputs)

\* C2: when a helper returns success the recorded outputs are exactly one
\* per participant of the session and none of any other party, and keygen,
\* auxinfo and tshare ran on the full party set.
C2_OneOutputPerParticipant ==
    hstate = "ok" =>
        /\ Range(outputs) = quorum
        /\ Len(outputs) = Cardinality(quorum)
        /\ phase \in {"keygen", "auxinfo", "tshare"} => quorum = Parties

\* C3: when a helper returns success every inbox of the session is empty.
C3_InboxesEmptyAtSuccess ==
    hstate = "ok" => inboxes_are_empty(inboxes)

\* C4: every run of a helper terminates: a running helper is never in a
\* state where all inboxes are empty while an output is still missing.  In
\* such a state the only step of the loop is the iteration that finds no
\* candidate and changes nothing, so the loop runs forever.
C4_HelperCanProgress ==
    hstate = "running" => (candidates # {} \/ ~(Len(outputs) < quorum_size))

\* C5: the Presign and Sign sessions run with exactly THRESHOLD
\* participants, those with the smallest identities of the full set.
C5_ThresholdSubset ==
    (phase \in {"presign", "sign"} /\ hstate = "running") =>
        /\ Cardinality(quorum) = THRESHOLD
        /\ quorum = {p \in Parties :
                        Cardinality({q \in Parties : q < p}) < THRESHOLD}

\* The call of tshare, presign or sign lacks a prerequisite output of some
\* participant.
MissingPrerequisite ==
    \/ req = "tshare_helper" /\ ~(configs \subseteq auxinfo_outputs)
    \/ req = "presign_helper" /\ ~(configs \subseteq auxinfo_outputs
                                   /\ configs \subseteq keygen_outputs)
    \/ req = "sign_helper" /\ ~(configs \subseteq presign_outputs)

\* C6: a helper called without a prerequisite output fails at once with an
\* error value naming the missing phase; no session id is created, no
\* message is enqueued, no output is stored.
C6_MissingPrerequisiteIsAnError ==
    (MissingPrerequisite /\ hstate # "idle") =>
        /\ hstate = "err"
        /\ error = "missing_prerequisite"
        /\ sid = NoSid
        /\ inboxes_are_empty(inboxes)
        /\ outputs = <<>>

\* C7: in the request flows a phase's helper is called only when the
\* outputs of its prerequisite phases exist for every participant: tshare
\* after auxinfo, presign after auxinfo and keygen, sign after presign and
\* keygen; so no message of a phase is enqueued before.
C7_PrerequisitesBeforeStart ==
    /\ (req = "tshare" /\ phase = "tshare") =>
            configs \subseteq auxinfo_outputs
    /\ (req \in {"presign", "sign"} /\ phase = "presign") =>
            /\ configs \subseteq auxinfo_outputs
            /\ configs \subseteq keygen_outputs
    /\ (req = "sign" /\ phase = "sign") =>
            /\ configs \subseteq presign_outputs
            /\ configs \subseteq keygen_outputs

\* C7's case: the sign session of a /sign request is exchanging messages.
C7_Witness ==
    /\ req = "sign" /\ phase = "sign" /\ hstate = "running"
    /\ sent > Cardinality(quorum)

\* C8: no two sessions started while serving one request have the same
\* session id.
C8_SessionIdsDistinct ==
    \A i, j \in 1..Len(sessions) :
        i # j => sessions[i].sid # sessions[j].sid

\* C9: an engine error ends the helper at once.  A step in which the
\* engine reports an error leaves the helper returned with that error, and
\* if it was a processing step it records no output and delivers nothing;
\* after it the only thing that happens is the request failing with that
\* error: no further message is taken, nothing is retried, and no output of
\* the session reaches the caller.
C9_EngineErrorAborts ==
    [][ /\ error' = "engine" => hstate' = "err"
        /\ (hstate = "running" /\ hstate' = "err") =>
              /\ error' = "engine"
              /\ outputs' = outputs
              /\ \A p \in DOMAIN inboxes :
                    Range(inboxes'[p]) \subseteq Range(inboxes[p])
        /\ hstate = "err" =>
              /\ response' = "err"
              /\ req' = "none"
              /\ hstate' = "idle"
              /\ outputs' = <<>>
              /\ keygen_outputs' = {}
              /\ auxinfo_outputs' = {}
              /\ presign_outputs' = {}
      ]_vars

\* C9's case: the engine failed on a message after an output was recorded
\* and while another message waits.
C9_Witness ==
    /\ hstate = "err" /\ error = "engine"
    /\ outputs # <<>>
    /\ ~inboxes_are_empty(inboxes)

\* C10: in every phase the message a step removes from the selected inbox
\* is the oldest one in it.
C10_OldestFirst ==
    [][ (hstate = "running" /\ phase' = phase /\ sid' = sid) =>
            \A p \in DOMAIN inboxes : \A i \in 1..Len(inboxes[p]) :
                inboxes[p][i] \notin Range(inboxes'[p]) => i = 1
      ]_vars

\* A step of the scheduler loop that took a message from an inbox.
ProcessingStep ==
    hstate = "running" /\ phase' = phase /\ sid' = sid /\ inboxes' # inboxes

\* s without its i-th element.
RemoveAt(s, i) == SubSeq(s, 1, i - 1) \o SubSeq(s, i + 1, Len(s))

\* C11: of the outbound messages a processing step returns, those whose
\* recipient has an inbox are appended to the end of that inbox, once each,
\* in emission order, and appear in no other inbox; the inboxes change in
\* no other way than by the removal of the processed message.
C11_DeliveredOnceInOrder ==
    [][ ProcessingStep =>
          LET new == NewMessages(sent, emitted')
          IN /\ sent' = sent + Len(emitted')
             /\ \E p \in DOMAIN inboxes : \E i \in 1..Len(inboxes[p]) :
                   \A q \in DOMAIN inboxes :
                      inboxes'[q] =
                         (IF q = p THEN RemoveAt(inboxes[p], i)
                          ELSE inboxes[q])
                         \o SelectSeq(new, LAMBDA m : m.to = q)
      ]_vars

\* C11's case: a step returned two messages for one recipient whose inbox
\* already held one.
C11_Witness ==
    /\ hstate = "running"
    /\ Len(emitted) = 2 /\ emitted[1] = emitted[2]
    /\ emitted[1] \in DOMAIN inboxes
    /\ Len(inboxes[emitted[1]]) >= 3

\* C12: an outbound message whose recipient has no inbox is added to no
\* inbox and does not end the session, and the other outbound messages of
\* the step are delivered.
C12_UnknownRecipientDiscarded ==
    [][ (ProcessingStep /\ \E i \in 1..Len(emitted') :
                              emitted'[i] \notin DOMAIN inboxes) =>
          /\ hstate' = "running" \/ error' = "assert_duplicate"
          /\ \A j \in 1..Len(emitted') :
                IF emitted'[j] \in DOMAIN inboxes
                THEN Msg(sent + j, emitted'[j])
                        \in Range(inboxes'[emitted'[j]])
                ELSE \A q \in DOMAIN inboxes : \A k \in 1..Len(inboxes'[q]) :
                        inboxes'[q][k].id # sent + j
      ]_vars

\* C12's case: a step returned a message for a party without an inbox and
\* then one for a participant, which is in that participant's inbox.
C12_Witness ==
    /\ hstate = "running"
    /\ Len(emitted) = 2
    /\ emitted[1] \notin DOMAIN inboxes
    /\ emitted[2] \in DOMAIN inboxes
    /\ Msg(sent, emitted[2]) \in Range(inboxes[emitted[2]])

\* C13: while the loop runs, the inboxes the scheduler may select are
\* exactly the non-empty ones; a processing step removes exactly one
\* message from one non-empty inbox and leaves the messages the other
\* inboxes held as they were.
C13_OneMessageFromNonEmptyInbox ==
    [][ /\ loop_continues =>
              candidates = {p \in DOMAIN inboxes : inboxes[p] # <<>>}
        /\ ProcessingStep =>
              \E p \in DOMAIN inboxes :
                 /\ inboxes[p] # <<>>
                 /\ p \in candidates
                 /\ \E i \in 1..Len(inboxes[p]) :
                       SelectSeq(inboxes'[p], LAMBDA m : m.id <= sent)
                          = RemoveAt(inboxes[p], i)
                 /\ \A q \in DOMAIN inboxes \ {p} :
                       SelectSeq(inboxes'[q], LAMBDA m : m.id <= sent)
                          = inboxes[q]
      ]_vars

\* C13's case: a sign session in which a message was processed while two
\* inboxes were non-empty and two still are.
C13_Witness ==
    /\ phase = "sign" /\ hstate = "running"
    /\ sent > Cardinality(quorum)
    /\ Cardinality({p \in DOMAIN inboxes : inboxes[p] # <<>>}) >= 2

\* C15: a /sign request for a fresh key (keygen, auxinfo, presign and sign
\* run in order) ends with every participant of the sign session having
\* reported its signature, so that the first collected output, which is
\* returned, can be the signature of them all.
C15_EveryPartyReportedSignature ==
    (/\ req = "sign" /\ phase = "sign" /\ hstate = "ok"
     /\ sessions[1].phase = "keygen") =>
        /\ \A p \in configs : p \in Range(outputs)
        /\ Len(outputs) = Cardinality(configs)

\* C16: a /keygen or /sign request that fails leaves local storage as it
\* found it: the same files with the same contents.
C16_FailedRequestWritesNothing ==
    [][ (/\ req \in {"keygen", "sign"} /\ req' = "none"
         /\ response' \in {"err", "panic"}) => files' = files0
      ]_vars

C18_DeleteLeavesNothing ==
    response = "deleted" => DOMAIN files = {}

\* C19: a participant that has produced its terminal output in a session
\* is fed no further message in that session: no processing step takes a
\* message from the inbox of a participant whose output is recorded.
C19_NoMessageAfterOutput ==
    [][ ProcessingStep =>
          \A p \in DOMAIN inboxes :
             (\E i \in 1..Len(inboxes[p]) :
                 inboxes[p][i] \notin Range(inboxes'[p]))
             => p \notin Range(outputs)
      ]_vars

\* C21: presign_helper's loop waits for as many outputs as the session has
\* participants, for every auxinfo_outputs map that covers the configs.
C21_PresignWaitsForParticipants ==
    (phase = "presign" /\ hstate = "running") =>
        quorum_size = Cardinality(quorum)

C23_DeletedFilesAreTheDeleted ==
    [][ response' = "deleted" =>
          /\ \A i \in 1..Len(deleted_files') :
                /\ deleted_files'[i] \in DOMAIN files
                /\ deleted_files'[i] \notin DOMAIN files'
          /\ NoDuplicates(deleted_files')
          /\ Len(deleted_files') = Cardinality(DOMAIN files \ DOMAIN files')
      ]_vars

\* C24: GET /keygen changes no file and starts no session; it answers 200
\* with the public key of the stored essentials exactly when the marker
\* and the essentials both exist, and 404 with an empty key otherwise.
C24_CheckKeygenOnlyReads ==
    [][ response' \in {"200", "404"} =>
          /\ files' = files
          /\ sessions' = sessions
          /\ hstate' = "idle" /\ hstate = "idle"
          /\ response' = "200" <=>
                {F_MARKER, F_ESSENTIALS} \subseteq DOMAIN files
          /\ response' = "200" => public_key' = files[F_ESSENTIALS].key
          /\ response' = "404" => public_key' = 0
      ]_vars

\* C24's case: GET /keygen reported the key of the essentials while the
\* shares of another key generation are stored beside them.
C24_Witness ==
    /\ response = "200"
    /\ public_key # 0
    /\ F_RESULT \in DOMAIN files
    /\ files[F_RESULT].key # public_key

\* C30: after a successful delete_key no /sign request signs with key
\* shares that were generated before the deletion: the key whose shares a
\* /sign request has signed with is never one whose shares the last
\* delete_key left behind.
C30_NoSigningWithDeletedShares ==
    (req = "sign" /\ phase = "sign" /\ hstate = "ok") => key \notin survived

\* C29: when a session starts, the inboxes it is given are empty, so that
\* right after the start they hold the session's initial messages and
\* nothing else; this holds for the presign session, which is given the
\* inbox map the auxinfo session returned.
C29_SessionStartsOnEmptyInboxes ==
    [][ Len(sessions') > Len(sessions) =>
          /\ phase' = "presign" => inboxes_are_empty(inboxes)
          /\ hstate' = "running" =>
                \A p \in DOMAIN inboxes' :
                   inboxes'[p] = IF p \in quorum'
                                 THEN <<Msg(Rank(p, quorum'), p)>>
                                 ELSE <<>>
      ]_vars

\* C29's case: the presign session of a request has just started on the
\* inboxes of an auxinfo session that exchanged messages.
C29_Witness ==
    /\ phase = "presign" /\ hstate = "running"
    /\ Len(sessions) >= 2
    /\ sessions[Len(sessions) - 1].phase = "auxinfo"
    /\ sent = Cardinality(quorum)
    /\ outputs = <<>>
    /\ \A p \in quorum : Len(inboxes[p]) = 1

\* The child indices of the stored HD key store.
StoredIndices(fs) == existing_indices(load_hd_key_store(fs))

\* C25: derive_key never overwrites an existing key.  A request for child
\* index 0, for an index the store holds, or made while no completed
\* keygen is stored fails and changes no file; a derivation that succeeds
\* leaves every derived key and root key the store held, and every other
\* file that existed, as they were.
C25_DeriveNeverOverwrites ==
    [][ response' \in {"derived", "derive_err"} =>
          /\ (\/ requested_index' = 0
              \/ requested_index' \in StoredIndices(files)
              \/ ~({F_MARKER, F_RESULT, F_CONFIGS} \subseteq DOMAIN files))
             => response' = "derive_err"
          /\ response' = "derive_err" => files' = files
          /\ response' = "derived" =>
                /\ load_hd_key_store(files).ids
                      \subseteq load_hd_key_store(files').ids
                /\ load_hd_key_store(files).key # 0 =>
                      load_hd_key_store(files').key
                         = load_hd_key_store(files).key
                /\ \A f \in DOMAIN files \ {F_HD} :
                      f \in DOMAIN files' /\ files'[f] = files[f]
      ]_vars

\* C25's case: a request for an index the store holds was refused while
\* a completed keygen is stored.
C25_Witness ==
    /\ response = "derive_err"
    /\ requested_index \in StoredIndices(files)
    /\ {F_MARKER, F_RESULT, F_CONFIGS} \subseteq DOMAIN files

\* C26: a derivation without a requested index assigns the smallest
\* index from 1 on that the store does not hold, and adds that index only.
C26_SmallestFreeIndex ==
    [][ (response' = "derived" /\ requested_index' = NoIndex) =>
          /\ child_index' >= 1
          /\ child_index' \notin StoredIndices(files)
          /\ \A j \in 1..(child_index' - 1) : j \in StoredIndices(files)
          /\ StoredIndices(files') = StoredIndices(files) \cup {child_index'}
      ]_vars

\* C26's case: index 1 was assigned again while index 2 is in use.
C26_Witness ==
    /\ response = "derived"
    /\ requested_index = NoIndex
    /\ child_index = 1
    /\ 2 \in StoredIndices(files)

\* C27: delete_child_key with index 0 or with an index the store does not
\* hold fails and changes no file; on success the entry of that index is
\* removed and every other derived key and the root key stay as they
\* were, and no file but the store and that child's key file changes.
C27_DeleteChildRemovesOneEntry ==
    [][ response' \in {"child_deleted", "child_err"} =>
          /\ (child_index' = 0 \/ child_index' \notin StoredIndices(files))
             => response' = "child_err"
          /\ response' = "child_err" => files' = files
          /\ response' = "child_deleted" =>
                /\ load_hd_key_store(files').ids =
                      {d \in load_hd_key_store(files).ids :
                          d[1] # child_index'}
                /\ load_hd_key_store(files').key
                      = load_hd_key_store(files).key
                /\ \A f \in DOMAIN files \ {F_HD, child_file(child_index')} :
                      f \in DOMAIN files' /\ files'[f] = files[f]
      ]_vars

\* C27's case: a child key was deleted from a store that still holds the
\* root key and another derived key.
C27_Witness ==
    /\ response = "child_deleted"
    /\ StoredIndices(files) # {}
    /\ load_hd_key_store(files).key # 0

\* C28: /verify answers an error, never "valid", when public_key.bin does
\* not exist, and when the child index is not 0 and not in the HD key
\* store; for index 0 and for a stored child index it verifies against the
\* key of public_key.bin.  It changes no file.
C28_VerifyUsesRootKey ==
    [][ response' \in {"valid", "invalid", "verify_err"} =>
          /\ files' = files
          /\ F_PUBKEY \notin DOMAIN files => response' = "verify_err"
          /\ (child_index' # 0 /\ child_index' \notin StoredIndices(files))
             => response' = "verify_err"
          /\ (/\ F_PUBKEY \in DOMAIN files
              /\ child_index' = 0 \/ child_index' \in StoredIndices(files))
             => /\ response' = "valid" <=>
                      (signature' # 0 /\ signature' = files[F_PUBKEY].key)
                /\ response' = "verify_err" <=> signature' = 0
      ]_vars

\* C28's case: a signature made with the root key was found valid for a
\* stored child index.
C28_Witness ==
    /\ response = "valid"
    /\ child_index # 0
    /\ child_index \in StoredIndices(files)

\* C31: the key GET /keygen reports is the key of the stored shares and
\* of public_key.bin, and a /sign request that finds a completed keygen
\* (marker and essentials) signs with the key of those essentials.
C31_ReportedKeyIsTheSigningKey ==
    /\ response = "200" =>
          /\ F_RESULT \in DOMAIN files => files[F_RESULT].key = public_key
          /\ F_PUBKEY \in DOMAIN files => files[F_PUBKEY].key = public_key
    /\ (/\ req = "sign" /\ phase = "sign" /\ hstate = "ok"
        /\ keygen_is_keygen_completed(files0)) =>
          key = files0[F_ESSENTIALS].key

\* C33: a presign record is used in at most one sign session.  A request
\* starts at most one sign session, on the records of the presign session
\* it ran just before; and once sign_helper has built its participants no
\* participant's record is left in the input map, where a second session
\* or a second participant could take it.
C33_PresignRecordUsedOnce ==
    /\ Cardinality({i \in 1..Len(sessions) : sessions[i].phase = "sign"}) <= 1
    /\ phase = "sign" =>
          /\ Len(sessions) >= 2
          /\ sessions[Len(sessions) - 1].phase = "presign"
          /\ hstate = "running" => sign_input \cap quorum = {}

\* C33's case: the sign session of a /sign request exchanges messages,
\* every participant's record taken from the map.
C33_Witness ==
    /\ req = "sign" /\ phase = "sign" /\ hstate = "running"
    /\ presign_outputs = quorum
    /\ sign_input = {}
    /\ sent > Cardinality(quorum)

\* C32: once two concurrent /sign requests that found no stored key have
\* both finished, the stored keygen_result.json, keygen_configs.bin and
\* public_key.bin come from one key generation, and each returned
\* signature was made with the key of public_key.bin.
C32_ConcurrentSignsConsistent ==
    (\A i \in Signers : signers[i].pc \in {"ok", "err"}) =>
        /\ \A f, g \in DOMAIN files \cap {F_RESULT, F_CONFIGS, F_PUBKEY} :
              files[f].key = files[g].key
        /\ \A i \in Signers :
              signers[i].pc = "ok" =>
                 /\ F_PUBKEY \in DOMAIN files
                 /\ files[F_PUBKEY].key = signers[i].key

====
